---- MODULE Spec2Model ----
(***************************************************************************)
(* Model of the App component of src/src/app.jsx: a React component that   *)
(* establishes a Firebase identity, mirrors the user's Firestore prompt    *)
(* collection through one onSnapshot subscription and issues add / update  *)
(* / delete requests against it.                                           *)
(*                                                                         *)
(* A step is one callback together with the render React commits because   *)
(* of it.  The passive effect of a commit that changed [db, userId] runs   *)
(* in a later step of its own, and before any later render.                *)
(***************************************************************************)
EXTENDS Integers, Sequences, FiniteSets, TLC

\* ---------------------------------------------------------------- bounds
MaxIssued == 2      \* mutation requests issued in one run
MaxSignOuts == 1    \* times the auth service drops the signed-in user
MaxExternal == 3    \* documents other sessions add to a collection

\* ---------------------------------------------------------------- values
Null == "null"      \* JS null / undefined of string-valued state
NoId == 0           \* editingPromptId = null
NoTime == 0         \* a document without createdAt

Uids == {"u1", "u2"}
TokenUid == "u1"    \* the uid a configured __initial_auth_token stands for

\* The ids the store assigns to created documents, and the ids other
\* sessions write to.
PromptIds == 1..MaxIssued
ExternalIds == 1..MaxExternal
\* createdAt values, in milliseconds.
Times == {1, 2}

\* Texts are sequences of UTF-16 code units.  TextA is "a", TextB is "b" and
\* WhiteText is the text of a space, a line feed, a tab and a no-break space.
TextA == <<97>>
TextB == <<98>>
WhiteText == <<32, 10, 9, 160>>

\* NewTexts is what the user types into the new-prompt textarea, DraftTexts
\* into the edit form.
NewTexts == {<<>>, WhiteText, TextA}
DraftTexts == {<<>>, WhiteText, TextB}

ErrInit == "Could not connect to the backend. Please check configuration."
ErrAuth == "Failed to authenticate. Please refresh the page."
ErrLoad == "Failed to load prompts. Please check permissions and network."
ErrSave == "Failed to save prompt."
ErrDelete == "Failed to delete prompt."
ErrUpdate == "Failed to update prompt."

VARIABLES
    \* React state of App
    isLoading, error, auth, db, userId, prompts, newPrompt, isSubmitting,
    editingPromptId, editingPromptText, isInitialized,
    \* React lifecycle
    mounted, strictTodo, initPending, cleanupAuth,
    \* a commit changed [db, userId] and the second useEffect has not run yet
    effectDue,
    \* deployment configuration
    configOk, hasToken,
    \* auth service
    authUser, authListener, authDirty, signInPending, signOuts,
    \* document store
    store, subs, requests, issued,
    \* history: the identity whose subscription delivered the current list
    promptsOwner

vars == <<isLoading, error, auth, db, userId, prompts, newPrompt, isSubmitting,
          editingPromptId, editingPromptText, isInitialized,
          mounted, strictTodo, initPending, cleanupAuth, effectDue,
          configOk, hasToken,
          authUser, authListener, authDirty, signInPending, signOuts,
          store, subs, requests, issued, promptsOwner>>

reactVars == <<isLoading, error, auth, db, userId, prompts, newPrompt, isSubmitting,
               editingPromptId, editingPromptText, isInitialized>>
lifeVars == <<mounted, strictTodo, initPending, cleanupAuth>>
confVars == <<configOk, hasToken>>
authVars == <<authUser, authListener, authDirty, signInPending, signOuts>>
storeVars == <<store, subs, requests, issued, promptsOwner>>

\* ---------------------------------------------------------------- strings
\* The WhiteSpace and LineTerminator code points String.prototype.trim
\* strips: TAB, LF, VT, FF, CR, SP, NBSP, the Unicode space separators, LS,
\* PS and ZWNBSP.
WhiteSpace ==
    {9, 10, 11, 12, 13, 32, 160, 5760} \cup (8192..8202)
        \cup {8232, 8233, 8239, 8287, 12288, 65279}

IsSpace(c) == c \in WhiteSpace

RECURSIVE TrimStart(_)
TrimStart(s) ==
    IF s = <<>> THEN <<>>
    ELSE IF IsSpace(Head(s)) THEN TrimStart(Tail(s)) ELSE s

RECURSIVE TrimEnd(_)
TrimEnd(s) ==
    IF s = <<>> THEN <<>>
    ELSE IF IsSpace(s[Len(s)]) THEN TrimEnd(SubSeq(s, 1, Len(s) - 1)) ELSE s

\* String.prototype.trim
Trim(s) == TrimEnd(TrimStart(s))

\* !s.trim(): the empty string is falsy
Blank(s) == Trim(s) = <<>>

\* ---------------------------------------------------------------- sorting
\* The comparator of promptsData.sort: b.createdAt?.toMillis() - a.createdAt?.toMillis().
\* With a missing createdAt the difference is NaN, which sort reads as +0.
Compare(a, b) ==
    IF a.createdAt = NoTime \/ b.createdAt = NoTime THEN 0
    ELSE b.createdAt - a.createdAt

Reverse(s) == [i \in 1..Len(s) |-> s[Len(s) + 1 - i]]

\* Array.prototype.sort as a stable insertion sort: the leading run is found
\* (and reversed when strictly descending under the comparator), then the
\* other elements are placed by binary insertion.  Under a consistent
\* comparator every stable sort leaves this array, whatever its length.
RECURSIVE RunEnd(_, _, _)
RunEnd(s, idx, desc) ==
    IF idx > Len(s) THEN Len(s)
    ELSE LET order == Compare(s[idx], s[idx - 1]) IN
         IF (desc /\ order >= 0) \/ (~desc /\ order < 0) THEN idx - 1
         ELSE RunEnd(s, idx + 1, desc)

RECURSIVE BinarySearch(_, _, _, _)
BinarySearch(s, pivot, left, right) ==
    IF left >= right THEN left
    ELSE LET mid == left + ((right - left) \div 2) IN
         IF Compare(pivot, s[mid]) < 0 THEN BinarySearch(s, pivot, left, mid)
         ELSE BinarySearch(s, pivot, mid + 1, right)

RECURSIVE BinaryInsertionSort(_, _)
BinaryInsertionSort(s, start) ==
    IF start > Len(s) THEN s
    ELSE LET pivot == s[start]
             left == BinarySearch(s, pivot, 1, start)
             placed == SubSeq(s, 1, left - 1) \o <<pivot>> \o
                       SubSeq(s, left, start - 1) \o SubSeq(s, start + 1, Len(s))
         IN BinaryInsertionSort(placed, start + 1)

SortPrompts(s) ==
    IF Len(s) < 2 THEN s
    ELSE LET desc == Compare(s[2], s[1]) < 0
             run == RunEnd(s, 3, desc)
             made == IF desc THEN Reverse(SubSeq(s, 1, run)) \o SubSeq(s, run + 1, Len(s))
                     ELSE s
         IN BinaryInsertionSort(made, run + 1)

\* Whether the comparator is a consistent comparator (ECMAScript 23.1.3.30)
\* for the elements of s: with documents that lack createdAt it may not be,
\* a NaN comparing equal to every other element.
ConsistentComparator(s) ==
    \A i, j, k \in DOMAIN s :
        /\ (Compare(s[i], s[j]) = 0 /\ Compare(s[j], s[k]) = 0)
              => Compare(s[i], s[k]) = 0
        /\ (Compare(s[i], s[j]) < 0 /\ Compare(s[j], s[k]) < 0)
              => Compare(s[i], s[k]) < 0
        /\ (Compare(s[i], s[j]) > 0 /\ Compare(s[j], s[k]) > 0)
              => Compare(s[i], s[k]) > 0

\* The arrays that hold the elements of s in some order.
Orderings(s) ==
    {[i \in DOMAIN s |-> s[f[i]]] :
        f \in {g \in [DOMAIN s -> DOMAIN s] : \A i, j \in DOMAIN s : i # j => g[i] # g[j]}}

\* The arrays promptsData.sort may leave: the stable sort under a consistent
\* comparator; under any other the order is implementation-defined, and
\* what the engine's sort does to a short array is one of the outcomes.
SortOutcomes(s) ==
    IF ConsistentComparator(s) THEN {SortPrompts(s)} ELSE Orderings(s)

\* querySnapshot.docs of a query without orderBy: the documents by ascending id.
RECURSIVE QueryDocs(_)
QueryDocs(coll) ==
    IF coll = {} THEN <<>>
    ELSE LET first == CHOOSE d \in coll : \A e \in coll : d.id <= e.id
         IN <<first>> \o QueryDocs(coll \ {first})

\* The collection at /artifacts/{appId}/users/{u}/prompts.
CollectionOf(u) == IF u \in Uids THEN store[u] ELSE {}

\* ---------------------------------------------------------------- render
ViewError == error # Null
ViewLoading == ~ViewError /\ (isLoading \/ userId = Null)
ViewLoaded == ~ViewError /\ ~ViewLoading

PromptShown(p) == \E i \in DOMAIN prompts : prompts[i] = p
\* the prompts.map branch that renders the edit form
EditFormShown == \E i \in DOMAIN prompts : prompts[i].id = editingPromptId
\* disabled={isSubmitting || !newPrompt.trim()}
AddButtonEnabledWhileSubmitting == ~Blank(newPrompt)
AddButtonEnabled == ~isSubmitting /\ ~Blank(newPrompt)

\* ---------------------------------------------------------------- lifecycle
\* No effect is waiting to run: event handlers and service callbacks may run.
Idle == mounted /\ ~initPending /\ ~strictTodo

Init ==
    /\ isLoading = TRUE
    /\ error = Null
    /\ auth = Null
    /\ db = Null
    /\ userId = Null
    /\ prompts = <<>>
    /\ newPrompt = <<>>
    /\ isSubmitting = FALSE
    /\ editingPromptId = NoId
    /\ editingPromptText = <<>>
    /\ isInitialized = FALSE
    /\ mounted = TRUE
    /\ strictTodo \in BOOLEAN
    /\ initPending = TRUE
    /\ cleanupAuth = FALSE
    /\ effectDue = FALSE
    /\ configOk \in BOOLEAN
    /\ hasToken \in BOOLEAN
    /\ authUser \in {Null, "u1"}
    /\ authListener = FALSE
    /\ authDirty = FALSE
    /\ signInPending = FALSE
    /\ signOuts = 0
    /\ store = [u \in Uids |-> {}]
    /\ subs = <<>>
    /\ requests = <<>>
    /\ issued = 0
    /\ promptsOwner = Null

\* The guard of the second useEffect (line 97): if (!db || !userId) return.
EffectReadyNoUser(d, u) == d # Null
EffectReady(d, u) == d # Null /\ u # Null

\* The cleanup the second useEffect returns (lines 122-124): unsubscribe().
EffectCleanupLeak(ss) == ss
EffectCleanup(ss) == <<>>

\* setIsLoading(true) of the second useEffect (line 101).
EffectLoading(l) == TRUE

\* A new onSnapshot listener (line 108): its first snapshot is still to come.
NewSubscription(u) == [uid |-> u, pending |-> TRUE, got |-> FALSE, failed |-> FALSE]

\* The second useEffect (lines 96-125), run for a commit that changed
\* [db, userId]: the cleanup of its previous run, then its body with the
\* committed d, u; l and ss are isLoading and the listeners as the step has
\* left them so far.
SubscriptionEffect(d, u, l, ss) ==
    IF EffectReady(d, u)
    THEN /\ isLoading' = EffectLoading(l)
         /\ subs' = Append(EffectCleanup(ss), NewSubscription(u))
    ELSE /\ isLoading' = l
         /\ subs' = EffectCleanup(ss)

\* The step's callback has set a state variable to a new value, so that
\* React renders.
StateSet ==
    <<error', userId', prompts', newPrompt', isSubmitting', editingPromptId',
      editingPromptText'>>
        # <<error, userId, prompts, newPrompt, isSubmitting, editingPromptId,
            editingPromptText>>

\* The end of a step whose callback leaves isLoading as l and the listeners
\* as ss: when the callback set state (always: it set a new array) React
\* renders, and before it renders it runs the effect that is still due.
Commit(l, ss, always) ==
    IF effectDue /\ (always \/ l # isLoading \/ StateSet)
    THEN /\ SubscriptionEffect(db, userId, l, ss)
         /\ effectDue' = FALSE
    ELSE /\ isLoading' = l
         /\ subs' = ss
         /\ effectDue' = effectDue

\* React flushes the passive effects of the last commit.
RunSubscriptionEffect ==
    /\ mounted /\ ~initPending /\ ~strictTodo
    /\ effectDue
    /\ SubscriptionEffect(db, userId, isLoading, subs)
    /\ effectDue' = FALSE
    /\ UNCHANGED <<error, auth, db, userId, prompts, newPrompt, isSubmitting,
                   editingPromptId, editingPromptText, isInitialized>>
    /\ UNCHANGED <<lifeVars, confVars, authVars>>
    /\ UNCHANGED <<store, requests, issued, promptsOwner>>

\* The guard of the first useEffect (line 52): if (isInitialized.current) return.
AlreadyInitializedIgnored(ref) == FALSE
AlreadyInitialized(ref) == ref

\* The effects of a mount (lines 51-93, then the second useEffect, which
\* returns at line 98: db is null in the render of a mount).  The first
\* useEffect returns at once when the isInitialized ref is set.  The commit
\* of setDb leaves the second useEffect due.
InitEffect ==
    /\ mounted /\ initPending
    /\ initPending' = FALSE
    /\ IF AlreadyInitialized(isInitialized)
       THEN /\ cleanupAuth' = FALSE
            /\ UNCHANGED <<isInitialized, error, auth, db, authListener, authDirty>>
       ELSE /\ isInitialized' = TRUE
            /\ IF ~configOk
               THEN /\ error' = ErrInit
                    /\ cleanupAuth' = FALSE
                    /\ UNCHANGED <<auth, db, authListener, authDirty>>
               ELSE /\ auth' = "auth"
                    /\ db' = "db"
                    /\ authListener' = TRUE
                    /\ authDirty' = TRUE
                    /\ cleanupAuth' = TRUE
                    /\ UNCHANGED error
    /\ isLoading' = IF ~AlreadyInitialized(isInitialized) /\ ~configOk
                     THEN FALSE ELSE isLoading
    /\ subs' = subs
    /\ effectDue' = (effectDue \/ db' # db)
    /\ UNCHANGED <<userId, prompts, newPrompt, isSubmitting, editingPromptId,
                   editingPromptText, mounted, strictTodo>>
    /\ UNCHANGED <<confVars, authUser, signInPending, signOuts>>
    /\ UNCHANGED <<store, requests, issued, promptsOwner>>

\* The cleanup of the first useEffect (line 86), when that run returned one.
AuthListenerAfterCleanup == IF cleanupAuth THEN FALSE ELSE authListener

\* React.StrictMode: right after the first mount the effects are torn down
\* and then invoked again, state and refs kept.
StrictRemount ==
    /\ mounted /\ strictTodo /\ ~initPending
    /\ strictTodo' = FALSE
    /\ authListener' = AuthListenerAfterCleanup
    /\ subs' = EffectCleanup(subs)
    /\ cleanupAuth' = FALSE
    /\ initPending' = TRUE
    /\ UNCHANGED <<reactVars, mounted, effectDue, confVars>>
    /\ UNCHANGED <<authUser, authDirty, signInPending, signOuts>>
    /\ UNCHANGED <<store, requests, issued, promptsOwner>>

\* The component is unmounted: both cleanups run.  An effect still due opens
\* a listener that its cleanup closes at once, and the state it sets goes
\* with the component.
Teardown ==
    /\ Idle
    /\ mounted' = FALSE
    /\ effectDue' = FALSE
    /\ authListener' = AuthListenerAfterCleanup
    /\ subs' = EffectCleanup(subs)
    /\ UNCHANGED <<reactVars, strictTodo, initPending, cleanupAuth, confVars>>
    /\ UNCHANGED <<authUser, authDirty, signInPending, signOuts>>
    /\ UNCHANGED <<store, requests, issued, promptsOwner>>

\* ---------------------------------------------------------------- auth
\* setUserId in the onAuthStateChanged callback (lines 70-72): only a
\* notification that carries a user assigns the identity.
UidAfterNotificationClearing(current, user) == user
UidAfterNotification(current, user) == IF user # Null THEN user ELSE current

\* The onAuthStateChanged callback (lines 69-84), up to its await.  When it
\* changes userId React renders (after running an effect still due from an
\* earlier commit) and the commit leaves the second useEffect due.
AuthStateChanged ==
    /\ Idle /\ authListener /\ authDirty
    /\ authDirty' = FALSE
    /\ userId' = UidAfterNotification(userId, authUser)
    /\ signInPending' = IF authUser = Null THEN TRUE ELSE signInPending
    /\ IF userId' # userId
       THEN /\ IF effectDue
               THEN SubscriptionEffect(db, userId, isLoading, subs)
               ELSE UNCHANGED <<isLoading, subs>>
            /\ effectDue' = TRUE
       ELSE UNCHANGED <<isLoading, subs, effectDue>>
    /\ UNCHANGED <<error, auth, db, prompts, newPrompt, isSubmitting,
                   editingPromptId, editingPromptText, isInitialized>>
    /\ UNCHANGED <<lifeVars, confVars, authUser, authListener, signOuts>>
    /\ UNCHANGED <<store, requests, issued, promptsOwner>>

\* signInWithCustomToken / signInAnonymously resolves (lines 74-78): the
\* service now holds user u and notifies its listeners.
SignInResolve(u) ==
    /\ Idle /\ signInPending
    /\ u = IF hasToken THEN TokenUid ELSE u
    /\ hasToken \/ u # userId
    /\ signInPending' = FALSE
    /\ authUser' = u
    /\ authDirty' = TRUE
    /\ UNCHANGED <<reactVars, lifeVars, effectDue, confVars, authListener, signOuts,
                   storeVars>>

\* A catch block that starts the sign-in again.
SignInRejectRetrying ==
    /\ Idle /\ signInPending
    /\ signInPending' = TRUE
    /\ error' = ErrAuth
    /\ UNCHANGED <<auth, db, userId, prompts, newPrompt, isSubmitting,
                   editingPromptId, editingPromptText, isInitialized>>
    /\ UNCHANGED <<lifeVars, confVars, authUser, authListener, authDirty, signOuts>>
    /\ UNCHANGED <<store, requests, issued, promptsOwner>>
    /\ Commit(isLoading, subs, FALSE)

\* The sign-in rejects: the catch block (lines 79-82).
SignInReject ==
    /\ Idle /\ signInPending
    /\ signInPending' = FALSE
    /\ error' = ErrAuth
    /\ UNCHANGED <<auth, db, userId, prompts, newPrompt, isSubmitting,
                   editingPromptId, editingPromptText, isInitialized>>
    /\ UNCHANGED <<lifeVars, confVars, authUser, authListener, authDirty, signOuts>>
    /\ UNCHANGED <<store, requests, issued, promptsOwner>>
    /\ Commit(isLoading, subs, FALSE)

\* The auth service loses its user (signed out elsewhere, account removed)
\* and notifies its listeners that no user is signed in.
SignOut ==
    /\ Idle /\ authUser # Null /\ signOuts < MaxSignOuts
    /\ authUser' = Null
    /\ authDirty' = TRUE
    /\ signOuts' = signOuts + 1
    /\ UNCHANGED <<reactVars, lifeVars, effectDue, confVars, authListener,
                   signInPending, storeVars>>

\* ---------------------------------------------------------------- store
RemoveAt(q, i) == SubSeq(q, 1, i - 1) \o SubSeq(q, i + 1, Len(q))

\* The store schedules a snapshot for every live listener of collection u.
MarkPending(ss, u) ==
    [i \in DOMAIN ss |->
        IF ss[i].uid = u /\ ~ss[i].failed THEN [ss[i] EXCEPT !.pending = TRUE]
        ELSE ss[i]]

\* promptsData of the onSnapshot callback (lines 109-113), as the sort may
\* leave it.
PromptsData(coll) == SortOutcomes(QueryDocs(coll))

\* setPrompts(promptsData) (line 114): the list is replaced, not patched.
ListAfterSnapshotPatched(old, data) ==
    data \o SelectSeq(old, LAMBDA q : \A k \in DOMAIN data : data[k].id # q.id)
ListAfterSnapshot(old, data) == data

\* setIsLoading(false) of the onSnapshot success callback (line 115).
LoadingAfterSnapshot == FALSE

\* The onSnapshot success callback (lines 108-115) of listener i.
OnSnapshot(i) ==
    /\ Idle
    /\ i \in DOMAIN subs
    /\ subs[i].pending /\ ~subs[i].failed
    /\ \E data \in PromptsData(CollectionOf(subs[i].uid)) :
          prompts' = ListAfterSnapshot(prompts, data)
    /\ promptsOwner' = subs[i].uid
    /\ UNCHANGED <<error, auth, db, userId, newPrompt, isSubmitting,
                   editingPromptId, editingPromptText, isInitialized>>
    /\ UNCHANGED <<lifeVars, confVars, authVars>>
    /\ UNCHANGED <<store, requests, issued>>
    /\ Commit(LoadingAfterSnapshot,
              [subs EXCEPT ![i].pending = FALSE, ![i].got = TRUE], TRUE)

\* The onSnapshot error callback (lines 116-120): the listener ends.
OnSnapshotError(i) ==
    /\ Idle
    /\ i \in DOMAIN subs
    /\ ~subs[i].failed
    /\ error' = ErrLoad
    /\ UNCHANGED <<auth, db, userId, prompts, newPrompt, isSubmitting,
                   editingPromptId, editingPromptText, isInitialized>>
    /\ UNCHANGED <<lifeVars, confVars, authVars>>
    /\ UNCHANGED <<store, requests, issued, promptsOwner>>
    /\ Commit(FALSE, [subs EXCEPT ![i].pending = FALSE, ![i].failed = TRUE], FALSE)

\* Another session adds document d to collection u (d may lack createdAt).
ExternalWrite(u, d) ==
    /\ Idle
    /\ \A e \in store[u] : e.id # d.id
    /\ store' = [store EXCEPT ![u] = @ \cup {d}]
    /\ subs' = MarkPending(subs, u)
    /\ UNCHANGED <<reactVars, lifeVars, effectDue, confVars, authVars>>
    /\ UNCHANGED <<requests, issued, promptsOwner>>

\* ---------------------------------------------------------------- intents
\* onChange of the new-prompt textarea (line 219), disabled while submitting.
SetNewPrompt(t) ==
    /\ Idle /\ ViewLoaded
    /\ ~isSubmitting
    /\ t # newPrompt
    /\ newPrompt' = t
    /\ UNCHANGED <<error, auth, db, userId, prompts, isSubmitting,
                   editingPromptId, editingPromptText, isInitialized>>
    /\ UNCHANGED <<lifeVars, confVars, authVars>>
    /\ UNCHANGED <<store, requests, issued, promptsOwner>>
    /\ Commit(isLoading, subs, FALSE)

Request(k, u, id, text, t) ==
    [kind |-> k, uid |-> u, id |-> id, text |-> text, createdAt |-> t]

\* new Date() (line 138): the client's wall clock, which may stand still
\* between two requests and may be set back.
NewDate == Times

\* The guard of handleAddPrompt (line 130).
AddPromptReturnsEarlyNoTrim(text, d, u) == text = <<>> \/ d = Null \/ u = Null
AddPromptReturnsEarly(text, d, u) == Blank(text) \/ d = Null \/ u = Null

\* handleAddPrompt (lines 128-139) up to its await, run by a submit event of
\* the new-prompt form.
HandleAddPrompt ==
    /\ Idle /\ ViewLoaded
    /\ issued < MaxIssued
    /\ IF AddPromptReturnsEarly(newPrompt, db, userId)
       THEN UNCHANGED <<isSubmitting, requests, issued>>
       ELSE /\ isSubmitting' = TRUE
            /\ \E t \in NewDate :
                  requests' = Append(requests, Request("add", userId, NoId, newPrompt, t))
            /\ issued' = issued + 1
    /\ UNCHANGED <<error, auth, db, userId, prompts, newPrompt,
                   editingPromptId, editingPromptText, isInitialized>>
    /\ UNCHANGED <<lifeVars, confVars, authVars>>
    /\ UNCHANGED <<store, promptsOwner>>
    /\ Commit(isLoading, subs, FALSE)

\* setNewPrompt('') after the await of addDoc (line 140).
BufferAfterAddDocKept == newPrompt
BufferAfterAddDoc == <<>>

\* addDoc resolves (lines 136-140, 144-146): the store assigned id.
AddDocResolve(i, id) ==
    /\ Idle
    /\ i \in DOMAIN requests
    /\ requests[i].kind = "add"
    /\ \A d \in store[requests[i].uid] : d.id # id
    /\ store' = [store EXCEPT ![requests[i].uid] =
                    @ \cup {[id |-> id, text |-> requests[i].text,
                             createdAt |-> requests[i].createdAt]}]
    /\ requests' = RemoveAt(requests, i)
    /\ newPrompt' = BufferAfterAddDoc
    /\ isSubmitting' = FALSE
    /\ UNCHANGED <<error, auth, db, userId, prompts,
                   editingPromptId, editingPromptText, isInitialized>>
    /\ UNCHANGED <<lifeVars, confVars, authVars>>
    /\ UNCHANGED <<issued, promptsOwner>>
    /\ Commit(isLoading, MarkPending(subs, requests[i].uid), FALSE)

\* A click on the submit button of the new-prompt form (lines 225-231)
\* submits the form unless the button is disabled.
ClickAddPrompt == AddButtonEnabled /\ HandleAddPrompt

\* addDoc rejects (lines 141-146).
AddDocReject(i) ==
    /\ Idle
    /\ i \in DOMAIN requests
    /\ requests[i].kind = "add"
    /\ requests' = RemoveAt(requests, i)
    /\ error' = ErrSave
    /\ isSubmitting' = FALSE
    /\ UNCHANGED <<auth, db, userId, prompts, newPrompt,
                   editingPromptId, editingPromptText, isInitialized>>
    /\ UNCHANGED <<lifeVars, confVars, authVars>>
    /\ UNCHANGED <<store, issued, promptsOwner>>
    /\ Commit(isLoading, subs, FALSE)

\* handleDeletePrompt (lines 149-154) up to its await, from the delete
\* button of a prompt shown outside the edit form; list is the local prompt
\* list the handler leaves behind.
DeletePromptLeaving(p, list) ==
    /\ Idle /\ ViewLoaded
    /\ PromptShown(p) /\ p.id # editingPromptId
    /\ issued < MaxIssued
    /\ IF db = Null \/ userId = Null \/ p.id = NoId
       THEN UNCHANGED <<requests, issued, prompts>>
       ELSE /\ requests' = Append(requests, Request("delete", userId, p.id, <<>>, NoTime))
            /\ issued' = issued + 1
            /\ prompts' = list
    /\ UNCHANGED <<error, auth, db, userId, newPrompt, isSubmitting,
                   editingPromptId, editingPromptText, isInitialized>>
    /\ UNCHANGED <<lifeVars, confVars, authVars>>
    /\ UNCHANGED <<store, promptsOwner>>
    /\ Commit(isLoading, subs, FALSE)

Without(list, id) == SelectSeq(list, LAMBDA q : q.id # id)

\* The handler sets no local state: the list is left as it is.
HandleDeletePromptOptimistic(p) == DeletePromptLeaving(p, Without(prompts, p.id))
HandleDeletePrompt(p) == DeletePromptLeaving(p, prompts)

\* deleteDoc resolves (line 154): nothing follows the await.
DeleteDocResolve(i) ==
    /\ Idle
    /\ i \in DOMAIN requests
    /\ requests[i].kind = "delete"
    /\ store' = [store EXCEPT ![requests[i].uid] = {d \in @ : d.id # requests[i].id}]
    /\ subs' = IF store'[requests[i].uid] # store[requests[i].uid]
               THEN MarkPending(subs, requests[i].uid) ELSE subs
    /\ requests' = RemoveAt(requests, i)
    /\ UNCHANGED <<reactVars, lifeVars, effectDue, confVars, authVars>>
    /\ UNCHANGED <<issued, promptsOwner>>

\* deleteDoc rejects (lines 155-158).
DeleteDocReject(i) ==
    /\ Idle
    /\ i \in DOMAIN requests
    /\ requests[i].kind = "delete"
    /\ requests' = RemoveAt(requests, i)
    /\ error' = ErrDelete
    /\ UNCHANGED <<auth, db, userId, prompts, newPrompt, isSubmitting,
                   editingPromptId, editingPromptText, isInitialized>>
    /\ UNCHANGED <<lifeVars, confVars, authVars>>
    /\ UNCHANGED <<store, issued, promptsOwner>>
    /\ Commit(isLoading, subs, FALSE)

\* setEditingPromptId(prompt.id) of startEditing (line 180): the id of the
\* prompt, not its position in the list.
EditingIdOnStartByIndex(p) == CHOOSE k \in DOMAIN prompts : prompts[k] = p
EditingIdOnStart(p) == p.id

\* setEditingPromptText(prompt.text) of startEditing (line 181).
DraftOnStartKept(p) == IF editingPromptId = NoId THEN p.text ELSE editingPromptText
DraftOnStart(p) == p.text

\* startEditing (lines 179-182), from the edit button of a prompt shown
\* outside the edit form.
StartEditing(p) ==
    /\ Idle /\ ViewLoaded
    /\ PromptShown(p) /\ p.id # editingPromptId
    /\ editingPromptId' = EditingIdOnStart(p)
    /\ editingPromptText' = DraftOnStart(p)
    /\ UNCHANGED <<error, auth, db, userId, prompts, newPrompt,
                   isSubmitting, isInitialized>>
    /\ UNCHANGED <<lifeVars, confVars, authVars>>
    /\ UNCHANGED <<store, requests, issued, promptsOwner>>
    /\ Commit(isLoading, subs, FALSE)

\* onChange of the edit form's textarea (line 242).
SetEditingPromptText(t) ==
    /\ Idle /\ ViewLoaded /\ EditFormShown
    /\ t # editingPromptText
    /\ editingPromptText' = t
    /\ UNCHANGED <<error, auth, db, userId, prompts, newPrompt,
                   isSubmitting, editingPromptId, isInitialized>>
    /\ UNCHANGED <<lifeVars, confVars, authVars>>
    /\ UNCHANGED <<store, requests, issued, promptsOwner>>
    /\ Commit(isLoading, subs, FALSE)

\* The Cancel button (line 247): setEditingPromptId(null).
CancelEditing ==
    /\ Idle /\ ViewLoaded /\ EditFormShown
    /\ editingPromptId' = NoId
    /\ UNCHANGED <<error, auth, db, userId, prompts, newPrompt,
                   isSubmitting, editingPromptText, isInitialized>>
    /\ UNCHANGED <<lifeVars, confVars, authVars>>
    /\ UNCHANGED <<store, requests, issued, promptsOwner>>
    /\ Commit(isLoading, subs, FALSE)

\* The updateDoc call of handleUpdatePrompt (lines 167-170): the document
\* of id, and the text field alone.
UpdateRequestStamped(u, id, text) ==
    Request("update", u, id, text, CHOOSE t \in NewDate : \A o \in NewDate : t >= o)
UpdateRequest(u, id, text) == Request("update", u, id, text, NoTime)

\* The guard of handleUpdatePrompt (line 163).
UpdatePromptReturnsEarly(text, d, u, id) ==
    Blank(text) \/ d = Null \/ u = Null \/ id = NoId

\* handleUpdatePrompt (lines 161-170) up to its await, from the edit form.
HandleUpdatePrompt ==
    /\ Idle /\ ViewLoaded /\ EditFormShown
    /\ issued < MaxIssued
    /\ IF UpdatePromptReturnsEarly(editingPromptText, db, userId, editingPromptId)
       THEN UNCHANGED <<requests, issued>>
       ELSE /\ requests' = Append(requests, UpdateRequest(userId, editingPromptId,
                                                          editingPromptText))
            /\ issued' = issued + 1
    /\ UNCHANGED <<reactVars, lifeVars, effectDue, confVars, authVars>>
    /\ UNCHANGED <<store, subs, promptsOwner>>

\* updateDoc resolves (lines 168-172): the document exists and the fields
\* the request carries are replaced.
UpdateDocResolve(i) ==
    /\ Idle
    /\ i \in DOMAIN requests
    /\ requests[i].kind = "update"
    /\ \E d \in store[requests[i].uid] : d.id = requests[i].id
    /\ store' = [store EXCEPT ![requests[i].uid] =
                    {IF d.id = requests[i].id
                     THEN [d EXCEPT !.text = requests[i].text,
                                    !.createdAt = IF requests[i].createdAt = NoTime
                                                  THEN @ ELSE requests[i].createdAt]
                     ELSE d : d \in @}]
    /\ requests' = RemoveAt(requests, i)
    /\ editingPromptId' = NoId
    /\ editingPromptText' = <<>>
    /\ UNCHANGED <<error, auth, db, userId, prompts, newPrompt,
                   isSubmitting, isInitialized>>
    /\ UNCHANGED <<lifeVars, confVars, authVars>>
    /\ UNCHANGED <<issued, promptsOwner>>
    /\ Commit(isLoading,
              IF store'[requests[i].uid] # store[requests[i].uid]
              THEN MarkPending(subs, requests[i].uid) ELSE subs,
              FALSE)

\* updateDoc rejects (lines 173-176).
UpdateDocReject(i) ==
    /\ Idle
    /\ i \in DOMAIN requests
    /\ requests[i].kind = "update"
    /\ requests' = RemoveAt(requests, i)
    /\ error' = ErrUpdate
    /\ UNCHANGED <<auth, db, userId, prompts, newPrompt, isSubmitting,
                   editingPromptId, editingPromptText, isInitialized>>
    /\ UNCHANGED <<lifeVars, confVars, authVars>>
    /\ UNCHANGED <<store, issued, promptsOwner>>
    /\ Commit(isLoading, subs, FALSE)

\* ---------------------------------------------------------------- system
PromptsShown == {prompts[k] : k \in DOMAIN prompts}

Next ==
    \/ InitEffect
    \/ StrictRemount
    \/ RunSubscriptionEffect
    \/ Teardown
    \/ AuthStateChanged
    \/ \E u \in Uids : SignInResolve(u)
    \/ SignInReject
    \/ SignOut
    \/ \E i \in DOMAIN subs : OnSnapshot(i)
    \/ \E i \in DOMAIN subs : OnSnapshotError(i)
    \/ \E t \in NewTexts : SetNewPrompt(t)
    \/ ClickAddPrompt
    \/ \E i \in DOMAIN requests, id \in PromptIds : AddDocResolve(i, id)
    \/ \E i \in DOMAIN requests : AddDocReject(i)
    \/ \E p \in PromptsShown : HandleDeletePrompt(p)
    \/ \E i \in DOMAIN requests : DeleteDocResolve(i)
    \/ \E i \in DOMAIN requests : DeleteDocReject(i)
    \/ \E p \in PromptsShown : StartEditing(p)
    \/ \E t \in DraftTexts : SetEditingPromptText(t)
    \/ CancelEditing
    \/ HandleUpdatePrompt
    \/ \E i \in DOMAIN requests : UpdateDocResolve(i)
    \/ \E i \in DOMAIN requests : UpdateDocReject(i)

Spec == Init /\ [][Next]_vars

\* The run in which React runs every effect it has scheduled, the auth
\* service delivers every notification and settles every sign-in, and the
\* store answers every subscription that awaits a snapshot with the snapshot
\* or with an error.  A subscription that awaits nothing may stay open and
\* quiet for ever.
Fairness ==
    /\ WF_vars(InitEffect)
    /\ WF_vars(StrictRemount)
    /\ WF_vars(RunSubscriptionEffect)
    /\ WF_vars(AuthStateChanged)
    /\ WF_vars((\E u \in Uids : SignInResolve(u)) \/ SignInReject)
    /\ WF_vars(\E i \in DOMAIN subs :
                  subs[i].pending /\ (OnSnapshot(i) \/ OnSnapshotError(i)))

SpecLive == Spec /\ Fairness

\* ---------------------------------------------------------------- established sessions
\* The state once u1 is signed in and the subscription effect has run (after
\* InitEffect, AuthStateChanged and RunSubscriptionEffect), over a store holding the collections c.
Established(c) ==
    /\ isLoading = TRUE
    /\ error = Null
    /\ auth = "auth"
    /\ db = "db"
    /\ userId = "u1"
    /\ prompts = <<>>
    /\ newPrompt = <<>>
    /\ isSubmitting = FALSE
    /\ editingPromptId = NoId
    /\ editingPromptText = <<>>
    /\ isInitialized = TRUE
    /\ mounted = TRUE
    /\ strictTodo = FALSE
    /\ initPending = FALSE
    /\ cleanupAuth = TRUE
    /\ effectDue = FALSE
    /\ configOk = TRUE
    /\ hasToken = FALSE
    /\ authUser = "u1"
    /\ authListener = TRUE
    /\ authDirty = FALSE
    /\ signInPending = FALSE
    /\ signOuts = 0
    /\ store = c
    /\ subs = <<NewSubscription("u1")>>
    /\ requests = <<>>
    /\ issued = 0
    /\ promptsOwner = Null

\* A session of u1 while other sessions of u1 add documents.
ExternalDocs == [id : ExternalIds, text : {TextA}, createdAt : Times \cup {NoTime}]

SharedInit == Established([u \in Uids |-> {}])

SharedNext ==
    \/ \E d \in ExternalDocs : ExternalWrite(userId, d)
    \/ \E i \in DOMAIN subs : OnSnapshot(i)

SpecShared == SharedInit /\ [][SharedNext]_vars

\* A session of u1 over a collection that holds two prompts of an earlier run.
EarlierPrompts ==
    {[id |-> 1, text |-> TextA, createdAt |-> 1],
     [id |-> 2, text |-> TextB, createdAt |-> 2]}

LibraryInit == Established([u \in Uids |-> IF u = "u1" THEN EarlierPrompts ELSE {}])

LibraryNext ==
    \/ \E i \in DOMAIN subs : OnSnapshot(i)
    \/ \E p \in PromptsShown : HandleDeletePrompt(p)
    \/ \E i \in DOMAIN requests : DeleteDocResolve(i)
    \/ \E i \in DOMAIN requests : DeleteDocReject(i)
    \/ \E p \in PromptsShown : StartEditing(p)
    \/ \E t \in DraftTexts : SetEditingPromptText(t)
    \/ CancelEditing
    \/ HandleUpdatePrompt
    \/ \E i \in DOMAIN requests : UpdateDocResolve(i)
    \/ \E i \in DOMAIN requests : UpdateDocReject(i)

SpecLibrary == LibraryInit /\ [][LibraryNext]_vars

\* A session of u1 over an empty collection in which the new-prompt form
\* receives submit events of any origin (a script calling requestSubmit, not
\* only a click on the enabled button), so that handleAddPrompt runs in every
\* state that renders the form.
FormsInit == Established([u \in Uids |-> {}])

FormsNext ==
    \/ \E i \in DOMAIN subs : OnSnapshot(i)
    \/ \E t \in NewTexts : SetNewPrompt(t)
    \/ HandleAddPrompt
    \/ \E i \in DOMAIN requests, id \in PromptIds : AddDocResolve(i, id)
    \/ \E i \in DOMAIN requests : AddDocReject(i)
    \/ \E p \in PromptsShown : StartEditing(p)
    \/ \E t \in DraftTexts : SetEditingPromptText(t)
    \/ CancelEditing
    \/ HandleUpdatePrompt
    \/ \E i \in DOMAIN requests : UpdateDocResolve(i)
    \/ \E i \in DOMAIN requests : UpdateDocReject(i)

SpecForms == FormsInit /\ [][FormsNext]_vars

\* A session of u1 over a collection that holds one prompt of an earlier
\* run, in which creates, updates and deletes overlap.
EarlierPrompt == {[id |-> 1, text |-> TextA, createdAt |-> 1]}

BusyInit == Established([u \in Uids |-> IF u = "u1" THEN EarlierPrompt ELSE {}])

BusyNext ==
    \/ \E i \in DOMAIN subs : OnSnapshot(i)
    \/ \E t \in NewTexts : SetNewPrompt(t)
    \/ ClickAddPrompt
    \/ \E i \in DOMAIN requests, id \in PromptIds : AddDocResolve(i, id)
    \/ \E i \in DOMAIN requests : AddDocReject(i)
    \/ \E p \in PromptsShown : HandleDeletePrompt(p)
    \/ \E i \in DOMAIN requests : DeleteDocResolve(i)
    \/ \E i \in DOMAIN requests : DeleteDocReject(i)
    \/ \E p \in PromptsShown : StartEditing(p)
    \/ \E t \in DraftTexts : SetEditingPromptText(t)
    \/ CancelEditing
    \/ HandleUpdatePrompt
    \/ \E i \in DOMAIN requests : UpdateDocResolve(i)
    \/ \E i \in DOMAIN requests : UpdateDocReject(i)

SpecBusy == BusyInit /\ [][BusyNext]_vars

\* ---------------------------------------------------------------- claims
MutationErrors == {ErrSave, ErrDelete, ErrUpdate}

\* A subscription of subs' that the step has opened.
OpenedInStep(i) ==
    /\ i \in DOMAIN subs'
    /\ subs'[i] = NewSubscription(subs'[i].uid)
    /\ ~(i \in DOMAIN subs /\ subs[i] = subs'[i])

\* C1 (as claimed): after a create, update or delete request was rejected,
\* the prompt list and the intents are still presented: the error view does
\* not replace the loaded view.
C1_MutationFailureNonFatal ==
    (error \in MutationErrors /\ userId # Null /\ ~isLoading) => ViewLoaded

\* C2: a subscription is open or a request has been issued only when the
\* store handle and a non-null identity are established, and each carries a
\* non-null identity in its path.
C2_NoOperationWithoutSession ==
    /\ (subs # <<>> \/ requests # <<>> \/ issued > 0) => (db # Null /\ userId # Null)
    /\ \A i \in DOMAIN subs : subs[i].uid # Null
    /\ \A i \in DOMAIN requests : requests[i].uid # Null

C2_Witness ==
    /\ \E i \in DOMAIN subs : subs[i].uid = userId
    /\ \E i \in DOMAIN requests : requests[i].uid = userId

\* C3: the local prompt list changes only in a step that handles an inbound
\* snapshot; issuing, resolving or rejecting a request leaves it unchanged.
C3_ListChangesOnlyOnSnapshot ==
    [][prompts' # prompts => \E i \in DOMAIN subs : OnSnapshot(i)]_vars

\* A request was issued and has succeeded, and the list does not show it yet.
C3_Witness ==
    /\ ViewLoaded /\ issued > 0 /\ requests = <<>>
    /\ {prompts[k].id : k \in DOMAIN prompts} # {d.id : d \in CollectionOf(userId)}

\* C4 (as claimed): once set to a non-null value, userId is never assigned a
\* different value.
C4_IdentityNeverReassigned ==
    [][userId # Null => userId' = userId]_vars

\* C4 (amended): once set, userId is never reset to null, and it changes
\* only in the step that handles an authentication notification carrying a
\* user, to that user's uid.
C4_IdentityFollowsAuth ==
    [][userId # Null =>
         /\ userId' # Null
         /\ userId' # userId =>
                (authListener /\ authDirty /\ authUser # Null /\ userId' = authUser)]_vars

\* The service reported no user and the identity was kept; a sign-in is under way.
C4_Witness ==
    userId # Null /\ authUser = Null /\ ~authDirty /\ signInPending

\* C5: at most one subscription is open; a step that opens one has released
\* the one that was open; and the list is only ever replaced by a snapshot of
\* the one subscription that is open when the snapshot is handled.
C5_AtMostOneSubscription ==
    /\ [](Len(subs) <= 1)
    /\ [][\A j \in DOMAIN subs' : OpenedInStep(j) => Len(subs') = 1]_vars
    /\ [][prompts' # prompts =>
            (Len(subs) = 1 /\ promptsOwner' = subs[1].uid)]_vars

\* The identity changed and the subscription of the new identity delivered.
C5_Witness ==
    /\ signOuts > 0 /\ Len(subs) = 1
    /\ subs[1].uid = "u2" /\ subs[1].got
    /\ store["u1"] # {}

\* C6 (as claimed): no subscription is open once the auth service has
\* reported that no user is signed in, nor once the component is torn down.
C6_ReleasedWhenInvalid ==
    /\ ~mounted => subs = <<>>
    /\ (mounted /\ authListener /\ authUser = Null /\ ~authDirty) => subs = <<>>

\* C7 (as claimed): in a loaded, non-error state the prompts that carry a
\* createdAt appear in descending order of it.
C7_SortedDescending ==
    ViewLoaded =>
        \A i, j \in DOMAIN prompts :
            (i < j /\ prompts[i].createdAt # NoTime /\ prompts[j].createdAt # NoTime)
                => prompts[i].createdAt >= prompts[j].createdAt

\* C8 (as claimed): a loaded state presents the list received under the
\* current identity, the open subscription is that of the current identity,
\* and a request is issued on the path of the current identity.
C8_Isolation ==
    /\ [](ViewLoaded => promptsOwner = userId)
    /\ [](\A i \in DOMAIN subs : subs[i].uid = userId)
    /\ [][Len(requests') > Len(requests) => requests'[Len(requests')].uid = userId]_vars

GotFirstSnapshot(u) == \E i \in DOMAIN subs : subs[i].uid = u /\ subs[i].got
SubscriptionFailed(u) == \E i \in DOMAIN subs : subs[i].uid = u /\ subs[i].failed

\* C9 (as claimed): from the moment an identity is available, and unless its
\* subscription has failed, isLoading holds exactly until the first snapshot
\* of the subscription of that identity has arrived; and a first snapshot of
\* an empty collection leaves prompts empty.
C9_LoadingContract ==
    /\ (mounted /\ userId # Null /\ ~SubscriptionFailed(userId))
          => (isLoading <=> ~GotFirstSnapshot(userId))
    /\ \A i \in DOMAIN subs :
          (subs[i].got /\ ~subs[i].pending /\ ~subs[i].failed
             /\ CollectionOf(subs[i].uid) = {})
              => prompts = <<>>

EditedRows == {k \in DOMAIN prompts : prompts[k].id = editingPromptId}

\* C10: at most one listed prompt is in edit mode, and a step that moves
\* the overlay to a prompt sets the draft to that prompt's committed text.
C10_SingleOverlay ==
    /\ [](Cardinality(EditedRows) <= 1)
    /\ [][(editingPromptId' # editingPromptId /\ editingPromptId' # NoId) =>
            \E k \in DOMAIN prompts :
                /\ prompts[k].id = editingPromptId'
                /\ editingPromptText' = prompts[k].text]_vars

\* Scenario D: a save of p1 is still in flight (p1 was in edit mode) and the
\* overlay now targets p2, with p2's committed text as the draft.
C10_Witness ==
    /\ Len(prompts) = 2
    /\ \E i \in DOMAIN requests :
          requests[i].kind = "update" /\ requests[i].id # editingPromptId
    /\ \E k \in DOMAIN prompts :
          /\ prompts[k].id = editingPromptId
          /\ prompts[k].text = editingPromptText
          /\ \E i \in DOMAIN requests : requests[i].text # prompts[k].text

\* C11 (as claimed): a step in which an update request succeeds leaves the
\* overlay (id and draft) unchanged when the overlay targets another prompt
\* than the request's, and exits edit mode when it targets the request's
\* prompt; a step in which an update request fails leaves the overlay unchanged.
C11_UpdateExitsOwnEditOnly ==
    [][\A i \in DOMAIN requests :
          /\ (UpdateDocResolve(i) /\ requests[i].id # editingPromptId)
                => UNCHANGED <<editingPromptId, editingPromptText>>
          /\ (UpdateDocResolve(i) /\ requests[i].id = editingPromptId)
                => editingPromptId' = NoId
          /\ UpdateDocReject(i)
                => UNCHANGED <<editingPromptId, editingPromptText>>]_vars

\* C12: a step in which a create request succeeds clears the input buffer;
\* a step in which it fails leaves the buffer equal to the text the request
\* was issued with and sets the error, which the error view presents.
C12_CreateOutcome ==
    [][\A i \in DOMAIN requests :
          /\ (\E id \in PromptIds : AddDocResolve(i, id)) => newPrompt' = <<>>
          /\ AddDocReject(i) =>
                /\ newPrompt' = requests[i].text
                /\ newPrompt' = newPrompt
                /\ error' = ErrSave
                /\ ViewError']_vars

\* A first create succeeded and a second create, of a retyped text, failed.
C12_Witness ==
    /\ error = ErrSave /\ ~Blank(newPrompt) /\ ~isSubmitting
    /\ requests = <<>> /\ issued = 2
    /\ \E d \in CollectionOf(userId) : d.text = newPrompt

\* C13: a create run with an empty or whitespace-only buffer and an update
\* run with an empty or whitespace-only draft change no state variable, and
\* no create or update request ever carries such a text.
C13_BlankIsNoOp ==
    /\ [](\A i \in DOMAIN requests :
            requests[i].kind \in {"add", "update"} => ~Blank(requests[i].text))
    /\ [][((Blank(newPrompt) /\ HandleAddPrompt)
             \/ (Blank(editingPromptText) /\ HandleUpdatePrompt))
            => UNCHANGED vars]_vars

\* Both forms are presented with a whitespace-only text and a request may
\* still be issued: a submit of either form runs its handler's early return.
C13_Witness ==
    /\ ViewLoaded /\ issued < MaxIssued
    /\ newPrompt = WhiteText
    /\ EditFormShown /\ editingPromptText = WhiteText

CreatePending == \E i \in DOMAIN requests : requests[i].kind = "add"

\* C14 (as claimed): while a create request is pending and the loaded view
\* is presented, each of the three intents can still be issued: the create
\* form accepts a submit of its non-blank buffer, the edit form a submit of
\* its non-blank draft, and a listed prompt its deletion.
C14_CreateDoesNotBlock ==
    (Idle /\ ViewLoaded /\ CreatePending /\ issued < MaxIssued) =>
        /\ ~Blank(newPrompt) => ENABLED ClickAddPrompt
        /\ (EditFormShown /\ ~Blank(editingPromptText)) =>
              ENABLED (HandleUpdatePrompt /\ Len(requests') = Len(requests) + 1)
        /\ \A p \in PromptsShown : p.id # editingPromptId =>
              ENABLED (HandleDeletePrompt(p) /\ Len(requests') = Len(requests) + 1)

\* C14 (amended): while a create request is pending, an update and a delete
\* can still be issued and each appends its own request, leaving the pending
\* create in flight; a further create cannot be issued, the submit button
\* being disabled, so that at most one create is pending.
C14_CreateBlocksOnlyCreate ==
    /\ [](CreatePending => (isSubmitting /\ ~AddButtonEnabled))
    /\ [](Cardinality({i \in DOMAIN requests : requests[i].kind = "add"}) <= 1)
    /\ []((Idle /\ ViewLoaded /\ CreatePending /\ issued < MaxIssued) =>
            /\ (EditFormShown /\ ~Blank(editingPromptText)) =>
                  ENABLED (HandleUpdatePrompt /\ Len(requests') = Len(requests) + 1)
            /\ \A p \in PromptsShown : p.id # editingPromptId =>
                  ENABLED (HandleDeletePrompt(p) /\ Len(requests') = Len(requests) + 1))
    /\ [][(CreatePending /\ Len(requests') > Len(requests)) =>
            /\ requests' = Append(requests, requests'[Len(requests')])
            /\ requests'[Len(requests')].kind \in {"update", "delete"}]_vars

\* A create is pending and a request issued after it is pending with it.
C14_Witness ==
    /\ Len(requests) = 2 /\ isSubmitting
    /\ requests[1].kind = "add"
    /\ requests[2].kind \in {"update", "delete"}

\* C15: once the error is set no step clears it; the step in which the
\* sign-in fails starts no sign-in and the step in which the subscription
\* fails leaves the sign-in as it is, and neither makes the subscription
\* effect due; a sign-in is only ever started by a notification that no user
\* is signed in; a subscription is only ever opened by the subscription
\* effect when it is due, and the effect only ever becomes due by a change of
\* the store handle or of the identity.
C15_FailureIsTerminal ==
    /\ [][error # Null => (error' # Null /\ ViewError')]_vars
    /\ [][SignInReject => (error' = ErrAuth /\ ~signInPending' /\ (effectDue' => effectDue))]_vars
    /\ [][\A i \in DOMAIN subs : OnSnapshotError(i) =>
            /\ error' = ErrLoad
            /\ ~signInPending' = ~signInPending
            /\ (effectDue' => effectDue)]_vars
    /\ [][(signInPending' /\ ~signInPending) =>
            (authListener /\ authDirty /\ authUser = Null)]_vars
    /\ [][(\E j \in DOMAIN subs' : OpenedInStep(j)) => effectDue]_vars
    /\ [][(effectDue' /\ ~effectDue) => (userId' # userId \/ db' # db)]_vars

\* The subscription of an earlier identity failed; the identity has changed
\* since and the new subscription has delivered its snapshot: the error stands.
C15_Witness ==
    /\ error = ErrLoad /\ ~isLoading
    /\ Len(subs) = 1 /\ ~subs[1].failed /\ subs[1].got

\* C16: the isInitialized ref is never reset; the handles are created and
\* the authentication listener is registered only in the step that sets the
\* ref, so at most once; and once the initialization effect has been
\* invoked the ref is set and, the configuration being present, the handles
\* exist, so once.
C16_SetupOnce ==
    /\ [][isInitialized => isInitialized']_vars
    /\ [][(auth' # auth \/ db' # db \/ (authListener' /\ ~authListener)) =>
            (~isInitialized /\ isInitialized')]_vars
    /\ []((mounted /\ ~initPending) => isInitialized)
    /\ []((isInitialized /\ configOk) => (auth # Null /\ db # Null))

\* The initialization effect was invoked, torn down and invoked again: the
\* handles are those of the first invocation and the second has set up nothing.
C16_Witness ==
    /\ mounted /\ ~initPending /\ ~strictTodo
    /\ isInitialized /\ db # Null /\ ~authListener

\* C17: a save issues an update for the id and the draft of the overlay as
\* they are at the submit; the step in which it succeeds replaces the text
\* of that document by the request's text and leaves its createdAt and every
\* other document as they are; and the list after a snapshot holds the
\* documents of the store as they are.
C17_UpdateWritesTextOnly ==
    /\ [][(HandleUpdatePrompt /\ Len(requests') > Len(requests)) =>
            LET new == requests'[Len(requests')] IN
            /\ new.kind = "update" /\ new.uid = userId
            /\ new.id = editingPromptId /\ new.text = editingPromptText]_vars
    /\ [][\A i \in DOMAIN requests : UpdateDocResolve(i) =>
            LET r == requests[i] IN
            store'[r.uid] =
                {IF d.id = r.id
                 THEN [id |-> d.id, text |-> r.text, createdAt |-> d.createdAt]
                 ELSE d : d \in store[r.uid]}]_vars
    /\ [][\A i \in DOMAIN subs : OnSnapshot(i) =>
            {prompts'[k] : k \in DOMAIN prompts'} = store[subs[i].uid]]_vars

\* Scenario C: the first earlier prompt was edited to "b", the update
\* succeeded and the snapshot after it has arrived.
C17_Witness ==
    /\ requests = <<>> /\ editingPromptId = NoId
    /\ \A i \in DOMAIN subs : ~subs[i].pending
    /\ \E k \in DOMAIN prompts :
          prompts[k] = [id |-> 1, text |-> TextB, createdAt |-> 1]

\* C18: the list a snapshot step leaves holds each document of the
\* snapshot once and nothing else; no two listed prompts share an id; and
\* whenever the open subscription has delivered the latest state of its
\* collection, the list holds exactly the documents of that collection.
C18_FullReplace ==
    /\ [][\A i \in DOMAIN subs : OnSnapshot(i) =>
            /\ Len(prompts') = Cardinality(CollectionOf(subs[i].uid))
            /\ \A d \in CollectionOf(subs[i].uid) :
                  Cardinality({k \in DOMAIN prompts' : prompts'[k] = d}) = 1]_vars
    /\ [](\A j, k \in DOMAIN prompts : j # k => prompts[j].id # prompts[k].id)
    /\ [](\A i \in DOMAIN subs :
            (subs[i].got /\ ~subs[i].pending /\ ~subs[i].failed) =>
                /\ Len(prompts) = Cardinality(CollectionOf(subs[i].uid))
                /\ PromptsShown = CollectionOf(subs[i].uid))

\* Scenario B then a delete: a prompt was created and listed, then deleted,
\* and the snapshot after the deletion has left the list empty.
C18_Witness ==
    /\ issued = 2 /\ requests = <<>> /\ error = Null
    /\ Len(subs) = 1 /\ subs[1].got /\ ~subs[1].pending
    /\ CollectionOf(userId) = {} /\ prompts = <<>>

\* The overlay is in Editing(id) and no listed prompt has that id.
Dangling == editingPromptId # NoId /\ ~EditFormShown

\* C19 (as claimed): whenever the overlay is in Editing(id), a prompt of the
\* current list has that id.
C19_OverlayRefersToListed == editingPromptId # NoId => EditFormShown

\* C19 (amended): the overlay enters Editing(id) only for a prompt that is
\* in the list at that step, with that prompt's text as the draft; it comes
\* to refer to no listed prompt only through a snapshot that no longer holds
\* the prompt; and a snapshot never changes the overlay, so the overlay then
\* stays on the missing id.
C19_OverlayEntersOnListed ==
    /\ [][(editingPromptId' # editingPromptId /\ editingPromptId' # NoId) =>
            /\ prompts' = prompts
            /\ \E k \in DOMAIN prompts :
                  prompts[k].id = editingPromptId' /\ prompts[k].text = editingPromptText']_vars
    /\ [][(~Dangling /\ Dangling') =>
            /\ \E i \in DOMAIN subs : OnSnapshot(i)
            /\ editingPromptId # NoId]_vars
    /\ [][(\E i \in DOMAIN subs : OnSnapshot(i)) =>
            UNCHANGED <<editingPromptId, editingPromptText>>]_vars

\* A prompt was put in edit mode while its deletion was in flight, and the
\* snapshot after the deletion no longer holds it.
C19_Witness ==
    /\ ViewLoaded /\ Dangling /\ requests = <<>>
    /\ \A d \in CollectionOf(userId) : d.id # editingPromptId

\* C20 (as claimed): when the auth service and the store answer, a mounted
\* application that presents the loading display eventually presents the
\* loaded view or the error view, also after the initialization effect was
\* invoked, torn down and invoked again: once the effects have run and the
\* handles exist, an authentication listener is registered.
C20_LeavesLoading ==
    /\ ViewLoading ~> (~ViewLoading \/ ~mounted)
    /\ []((Idle /\ db # Null) => authListener)

====
